---- MODULE Spec2Model ----
(***************************************************************************)
(* A model of youtube_transcript_api/_api.py: the YouTubeTranscriptApi     *)
(* entry points list_transcripts, get_transcripts, get_transcript and      *)
(* _load_cookies, together with the transcript catalog they drive          *)
(* (TranscriptListFetcher, TranscriptList.find_transcript,                 *)
(* Transcript.fetch, Transcript.translate).                                *)
(***************************************************************************)
EXTENDS Integers, Sequences, FiniteSets, TLC

VARIABLES
    video_ids,              \* get_transcripts: the list of ids passed in
    continue_after_error,   \* get_transcripts: the flag
    batch_args,             \* get_transcripts: languages, proxies, cookies, preserve_formatting, verify
    idx,                    \* get_transcripts: position of the for loop (1-based index of the next element)
    data,                   \* get_transcripts: the dict, as a set of <<video_id, cues>> with one pair per key
    unretrievable_videos,   \* get_transcripts: the list
    batch_pc,               \* get_transcripts: "none", "loop", "waiting", "returned", "raised"
    batch_result,           \* what get_transcripts handed to its caller
    call,                   \* per caller: the get_transcript invocation in progress
    sessions,               \* every requests.Session created so far, by creation order
    requests_log,           \* every HTTP request issued so far
    invoked,                \* every get_transcript invocation so far, in order
    history,                \* get_transcripts: how each finished retrieval ended, in order
    world,                  \* the platform and the file system as the concurrent callers see them
    catalog,                \* matching: the catalog under test
    requested,              \* matching: the requested languages
    found,                  \* matching: the outcome of find_transcript
    descriptor,             \* translation: the descriptor under test
    derived,                \* translation: the outcomes of the translate calls so far
    mode                    \* which entry point the environment is driving

vars == <<video_ids, continue_after_error, batch_args, idx, data, unretrievable_videos,
          batch_pc, batch_result, history, call, sessions, requests_log, invoked, world,
          catalog, requested, found, descriptor, derived, mode>>

batch_vars == <<video_ids, continue_after_error, batch_args, idx, data,
                unretrievable_videos, batch_pc, batch_result, history>>
call_vars == <<call, sessions, requests_log, invoked>>
match_vars == <<catalog, requested, found>>
translate_vars == <<descriptor, derived>>

----------------------------------------------------------------------------
(* Bounds *)

MaxVideos == 2        \* longest video_ids list
MaxTracks == 2        \* most caption tracks in a catalog under test
MaxLanguages == 2     \* longest requested-languages list under test
MaxTranslations == 3  \* most translate calls in one behaviour

----------------------------------------------------------------------------
(* Values *)

None == "None"

Videos == {"vidA", "vidB"}

\* A language code is its sequence of subtags: "en" is <<"en">>, "en-US" is <<"en", "US">>.
Codes == {<<"en">>, <<"en", "US">>, <<"de">>, <<"de", "DE">>}

Range(s) == {s[i] : i \in 1..Len(s)}

SeqsUpTo(S, n) == UNION {[1..k -> S] : k \in 0..n}

\* the dict assignment data[key] = value
DictSet(d, key, value) == {kv \in d : kv[1] # key} \cup {<<key, value>>}

DictKeys(d) == {kv[1] : kv \in d}

----------------------------------------------------------------------------
(* Transcript Descriptor and Transcript Catalog *)

\* One caption track.  target is the translation target its fetch URL carries, None for
\* the track as the platform lists it.
Descriptor(code, generated, translations) ==
    [language_code |-> code,
     is_generated |-> generated,
     is_translatable |-> translations # <<>>,
     translation_languages |-> translations,
     target |-> None]

TranslationLists == {<<>>, << <<"de">> >>, << <<"de">>, <<"en">> >>}

Descriptors == {Descriptor(c, g, t) : c \in Codes, g \in BOOLEAN, t \in TranslationLists}

\* A catalog holds at most one Descriptor per (language_code, origin) pair.
IsCatalog(cat) ==
    \A i, j \in 1..Len(cat) :
        (/\ cat[i].language_code = cat[j].language_code
         /\ cat[i].is_generated = cat[j].is_generated) => i = j

Min(S) == CHOOSE m \in S : \A n \in S : m <= n

ExactMatch(d, code) == d.language_code = code

\* same primary subtag, region ignored
ApproximateMatch(d, code) == Head(d.language_code) = Head(code)

\* the two kinds of match, in the order the passes apply them
Exact == "exact"

Approximate == "approximate"

Matches(d, code, kind) ==
    IF kind = Exact THEN ExactMatch(d, code) ELSE ApproximateMatch(d, code)

Candidates(cat, code, kind) == {i \in 1..Len(cat) : Matches(cat[i], code, kind)}

\* among the candidates of one rank: manual before generated, then platform order
Preferred(cat, S) ==
    LET manual == {i \in S : ~cat[i].is_generated}
    IN  cat[Min(IF manual # {} THEN manual ELSE S)]

\* one pass over the requested languages in priority order
Ranks(cat, langs, kind) ==
    {k \in 1..Len(langs) : Candidates(cat, langs[k], kind) # {}}

PassResult(cat, langs, kind) ==
    Preferred(cat, Candidates(cat, langs[Min(Ranks(cat, langs, kind))], kind))

NoTranscriptFound(cat) ==
    [kind |-> "NoTranscriptFound",
     available |-> [i \in 1..Len(cat) |-> cat[i].language_code]]

\* a single pass that settles each requested code, exactly or approximately, before the next
find_transcript_single_pass(cat, langs) ==
    IF Ranks(cat, langs, Approximate) = {}
    THEN NoTranscriptFound(cat)
    ELSE LET k == Min(Ranks(cat, langs, Approximate))
             exact == Candidates(cat, langs[k], Exact)
         IN  [kind |-> "found",
              transcript |->
                  IF exact # {} THEN Preferred(cat, exact)
                  ELSE Preferred(cat, Candidates(cat, langs[k], Approximate))]

\* TranscriptList.find_transcript: the exact pass over every requested code, then the
\* approximate pass
find_transcript(cat, langs) ==
    IF Ranks(cat, langs, Exact) # {}
    THEN [kind |-> "found", transcript |-> PassResult(cat, langs, Exact)]
    ELSE IF Ranks(cat, langs, Approximate) # {}
    THEN [kind |-> "found", transcript |-> PassResult(cat, langs, Approximate)]
    ELSE NoTranscriptFound(cat)

\* translate that rewrites the receiver and hands it back
translate_in_place(d, code) ==
    IF ~d.is_translatable
    THEN [self |-> d, out |-> [kind |-> "NotTranslatable"]]
    ELSE IF code \notin Range(d.translation_languages)
    THEN [self |-> d, out |-> [kind |-> "TranslationLanguageNotAvailable"]]
    ELSE LET t == [d EXCEPT !.is_translatable = FALSE,
                            !.translation_languages = <<>>,
                            !.target = code]
         IN  [self |-> t, out |-> [kind |-> "found", transcript |-> t]]

\* Transcript.translate: self is the receiver after the call, out what the call produced
translate(d, code) ==
    IF ~d.is_translatable
    THEN [self |-> d, out |-> [kind |-> "NotTranslatable"]]
    ELSE IF code \notin Range(d.translation_languages)
    THEN [self |-> d, out |-> [kind |-> "TranslationLanguageNotAvailable"]]
    ELSE [self |-> d,
          out |-> [kind |-> "found",
                   transcript |-> [d EXCEPT !.is_translatable = FALSE,
                                            !.translation_languages = <<>>,
                                            !.target = code]]]

----------------------------------------------------------------------------
(* Cookie loading *)

\* what the caller's cookie path can point at
CookieFiles == {"missing", "malformed", "unreadable", "empty", "valid"}

\* cookiejar.MozillaCookieJar().load(cookies)
cookie_jar_load(file) ==
    CASE file = "missing"    -> [kind |-> "raised", error |-> "FileNotFoundError"]
      [] file = "malformed"  -> [kind |-> "raised", error |-> "LoadError"]
      [] file = "unreadable" -> [kind |-> "raised", error |-> "PermissionError"]
      [] file = "empty"      -> [kind |-> "loaded", jar |-> "empty"]
      [] file = "valid"      -> [kind |-> "loaded", jar |-> "nonempty"]

CookieLoadError == {"FileNotFoundError", "LoadError"}

Error(kind, video_id) == [kind |-> kind, video_id |-> video_id]

Returned(value) == [kind |-> "returned", value |-> value]

Raised(error) == [kind |-> "raised", error |-> error]

\* an except clause wide enough to take the empty-jar failure with it
load_cookies_collapsed(file, video_id) ==
    LET loaded == cookie_jar_load(file)
    IN  IF loaded.kind = "loaded" /\ loaded.jar = "nonempty"
        THEN Returned(loaded.jar)
        ELSE IF loaded.kind = "raised" /\ loaded.error \notin CookieLoadError
        THEN Raised(Error(loaded.error, None))
        ELSE Raised(Error("CookiePathInvalid", video_id))

\* YouTubeTranscriptApi._load_cookies
load_cookies(file, video_id) ==
    LET loaded == cookie_jar_load(file)
    IN  IF loaded.kind = "loaded"
        THEN IF loaded.jar = "empty"
             THEN Raised(Error("CookiesInvalid", video_id))
             ELSE Returned(loaded.jar)
        ELSE IF loaded.error \in CookieLoadError
        THEN Raised(Error("CookiePathInvalid", video_id))
        ELSE Raised(Error(loaded.error, None))

----------------------------------------------------------------------------
(* Sessions and requests *)

\* a requests.Session as constructed: open, no cookies, default proxies and verification
FreshSession == [open |-> TRUE, cookies |-> "empty", proxies |-> "default", verify |-> "default"]

\* one session kept for every caller
SharedSession(ss) == 1

\* requests.Session(): the identity of the object the constructor returns
Session(ss) == Len(ss) + 1

\* the catalogs the platform serves in the retrieval behaviours
PageCatalogs ==
    {<< Descriptor(<<"en">>, FALSE, << <<"de">> >>), Descriptor(<<"en">>, TRUE, <<>>) >>,
     << Descriptor(<<"de", "DE">>, TRUE, <<>>) >>}

PageFailures == {"VideoUnavailable", "VideoUnplayable", "TranscriptsDisabled", "TooManyRequests"}

PageResponses ==
    {[kind |-> "ok", catalog |-> c] : c \in PageCatalogs}
        \cup {[kind |-> k] : k \in PageFailures}

PayloadBodies == {"body1", "body2"}

PayloadResponses ==
    {[kind |-> "ok", body |-> b] : b \in PayloadBodies}
        \cup {[kind |-> "CouldNotRetrieveTranscript"], [kind |-> "Unparsable"]}

\* the Cue Parser's output for one payload
parse_cues(transcript, body, preserve_formatting) ==
    [language_code |-> transcript.language_code,
     is_generated |-> transcript.is_generated,
     body |-> body,
     formatted |-> preserve_formatting]

Request(kind, p, c, ss, response) ==
    [kind |-> kind, caller |-> p, attempt |-> c.attempt,
     video_id |-> c.args.video_id, session |-> c.session,
     session_open |-> ss[c.session].open, cookies |-> ss[c.session].cookies,
     response |-> response]

----------------------------------------------------------------------------
(* One get_transcript invocation, stage by stage *)

Args(video_id, languages, proxies, cookies, preserve_formatting, verify) ==
    [video_id |-> video_id, languages |-> languages, proxies |-> proxies,
     cookies |-> cookies, preserve_formatting |-> preserve_formatting, verify |-> verify]

IdleCall ==
    [stage |-> "idle", args |-> None, session |-> 0, catalog |-> <<>>,
     transcript |-> None, outcome |-> [kind |-> "none"], trace |-> <<>>, attempt |-> 0,
     cookie_file |-> None]

\* get_transcript is invoked and list_transcripts enters its with block
EnterListTranscripts(p, args) ==
    /\ call[p].stage = "idle"
    /\ LET id == Session(sessions)
       IN  /\ sessions' = IF id \in DOMAIN sessions THEN sessions
                          ELSE Append(sessions, FreshSession)
           /\ call' = [call EXCEPT ![p] =
                  [IdleCall EXCEPT !.stage = IF args.cookies # None THEN "load_cookies"
                                             ELSE "configure",
                                   !.args = args,
                                   !.session = id,
                                   !.attempt = call[p].attempt + 1]]
    /\ invoked' = Append(invoked, [caller |-> p, video_id |-> args.video_id])
    /\ UNCHANGED requests_log

\* if cookies: http_client.cookies = cls._load_cookies(cookies, video_id)
LoadCookies(p, file) ==
    /\ call[p].stage = "load_cookies"
    /\ LET c == call[p]
           jar == load_cookies(file, c.args.video_id)
       IN  IF jar.kind = "returned"
           THEN /\ sessions' = [sessions EXCEPT ![c.session].cookies = jar.value]
                /\ call' = [call EXCEPT ![p].stage = "configure",
                                        ![p].cookie_file = file,
                                        ![p].trace = Append(@, "load_cookies")]
           ELSE /\ sessions' = [sessions EXCEPT ![c.session].open = FALSE]
                /\ call' = [call EXCEPT ![p].stage = "raised",
                                        ![p].outcome = jar,
                                        ![p].cookie_file = file,
                                        ![p].trace = Append(@, "load_cookies")]
    /\ UNCHANGED <<requests_log, invoked>>

\* http_client.proxies = proxies if proxies else {}; if verify is not None: http_client.verify = verify
Configure(p) ==
    /\ call[p].stage = "configure"
    /\ LET c == call[p]
       IN  sessions' = [sessions EXCEPT
               ![c.session].proxies = IF c.args.proxies # None THEN c.args.proxies ELSE "empty",
               ![c.session].verify = IF c.args.verify # None THEN c.args.verify ELSE @]
    /\ call' = [call EXCEPT ![p].stage = "fetch_list"]
    /\ UNCHANGED <<requests_log, invoked>>

\* return TranscriptListFetcher(http_client).fetch(video_id), and the with block exits
FetchList(p, response) ==
    /\ call[p].stage = "fetch_list"
    /\ LET c == call[p]
       IN  /\ requests_log' = Append(requests_log, Request("page", p, c, sessions, response))
           /\ sessions' = [sessions EXCEPT ![c.session].open = FALSE]
           /\ call' = IF response.kind = "ok"
                      THEN [call EXCEPT ![p].stage = "find_transcript",
                                        ![p].catalog = response.catalog,
                                        ![p].trace = Append(@, "fetch_list")]
                      ELSE [call EXCEPT ![p].stage = "raised",
                                        ![p].outcome = Raised(Error(response.kind, c.args.video_id)),
                                        ![p].trace = Append(@, "fetch_list")]
    /\ UNCHANGED invoked

\* .find_transcript(languages)
FindTranscript(p) ==
    /\ call[p].stage = "find_transcript"
    /\ LET c == call[p]
           match == find_transcript(c.catalog, c.args.languages)
       IN  call' = IF match.kind = "found"
                   THEN [call EXCEPT ![p].stage = "fetch",
                                     ![p].transcript = match.transcript,
                                     ![p].trace = Append(@, "find_transcript")]
                   ELSE [call EXCEPT ![p].stage = "raised",
                                     ![p].outcome = Raised(Error(match.kind, c.args.video_id)),
                                     ![p].trace = Append(@, "find_transcript")]
    /\ UNCHANGED <<sessions, requests_log, invoked>>

\* the flag with its default in place of the caller's value
fetch_flag_default(preserve_formatting) == FALSE

\* .fetch(preserve_formatting=preserve_formatting): the flag handed to Transcript.fetch
fetch_flag(preserve_formatting) == preserve_formatting

FetchTranscript(p, response) ==
    /\ call[p].stage = "fetch"
    /\ LET c == call[p]
       IN  /\ requests_log' = Append(requests_log, Request("payload", p, c, sessions, response))
           /\ call' = IF response.kind = "ok"
                      THEN [call EXCEPT ![p].stage = "returned",
                                        ![p].outcome = Returned(parse_cues(c.transcript,
                                            response.body, fetch_flag(c.args.preserve_formatting))),
                                        ![p].trace = Append(@, "fetch")]
                      ELSE [call EXCEPT ![p].stage = "raised",
                                        ![p].outcome = Raised(Error(response.kind, c.args.video_id)),
                                        ![p].trace = Append(@, "fetch")]
    /\ UNCHANGED <<sessions, invoked>>

----------------------------------------------------------------------------
(* get_transcripts *)

LanguageLists == {<< <<"en">> >>, << <<"de">>, <<"en">> >>, << <<"fr">> >>}

\* proxies, cookies and verify as the caller passes them
Transports ==
    {[proxies |-> None, cookies |-> None, verify |-> None],
     [proxies |-> None, cookies |-> "cookies.txt", verify |-> None],
     [proxies |-> "proxy", cookies |-> "cookies.txt", verify |-> "False"]}

BatchArgs ==
    {[languages |-> l, proxies |-> t.proxies, cookies |-> t.cookies,
      preserve_formatting |-> f, verify |-> t.verify] :
        l \in LanguageLists, t \in Transports, f \in BOOLEAN}

\* a handler that re-raises whatever the flag says
except_clause_reraise(continue, unretrievable, video_id, exception) ==
    [raise |-> TRUE, exception |-> exception, unretrievable |-> unretrievable]

\* a handler that swallows whatever the flag says
except_clause_swallow(continue, unretrievable, video_id, exception) ==
    [raise |-> FALSE, exception |-> exception,
     unretrievable |-> Append(unretrievable, video_id)]

\* a handler that keeps an id out of the list once data holds it
except_clause_skip_known(continue, unretrievable, video_id, exception) ==
    IF ~continue
    THEN [raise |-> TRUE, exception |-> exception, unretrievable |-> unretrievable]
    ELSE [raise |-> FALSE, exception |-> exception,
          unretrievable |-> IF video_id \in DictKeys(data) THEN unretrievable
                            ELSE Append(unretrievable, video_id)]

\* except Exception as exception: if not continue_after_error: raise exception;
\* unretrievable_videos.append(video_id)
except_clause(continue, unretrievable, video_id, exception) ==
    IF ~continue
    THEN [raise |-> TRUE, exception |-> exception, unretrievable |-> unretrievable]
    ELSE [raise |-> FALSE, exception |-> exception,
          unretrievable |-> Append(unretrievable, video_id)]

\* a loop that stays on an element whose retrieval failed
next_element_retry(i, failed) == IF failed THEN i ELSE i + 1

\* for video_id in video_ids: the element after the one just handled
next_element(i, failed) == i + 1

\* the body of the for loop calls get_transcript for the current element
BatchCall ==
    /\ mode = "batch"
    /\ batch_pc = "loop"
    /\ idx <= Len(video_ids)
    /\ Len(invoked) <= MaxVideos
    /\ EnterListTranscripts(1, Args(video_ids[idx], batch_args.languages, batch_args.proxies,
                                    batch_args.cookies, batch_args.preserve_formatting,
                                    batch_args.verify))
    /\ batch_pc' = "waiting"
    /\ UNCHANGED <<video_ids, continue_after_error, batch_args, idx, data,
                   unretrievable_videos, batch_result, history>>

\* get_transcript returned or raised: the assignment into data, or the except clause
BatchCollect ==
    /\ mode = "batch"
    /\ batch_pc = "waiting"
    /\ call[1].stage \in {"returned", "raised"}
    /\ LET c == call[1]
           video_id == c.args.video_id
       IN  /\ history' = Append(history, [video_id |-> video_id, outcome |-> c.outcome])
           /\ IF c.stage = "returned"
              THEN /\ data' = DictSet(data, video_id, c.outcome.value)
                   /\ idx' = next_element(idx, FALSE)
                   /\ batch_pc' = "loop"
                   /\ call' = [call EXCEPT ![1] = [IdleCall EXCEPT !.attempt = c.attempt]]
                   /\ UNCHANGED <<unretrievable_videos, batch_result>>
              ELSE LET handled == except_clause(continue_after_error, unretrievable_videos,
                                                video_id, c.outcome.error)
                   IN  IF handled.raise
                       THEN /\ batch_pc' = "raised"
                            /\ batch_result' = Raised(handled.exception)
                            /\ UNCHANGED <<data, idx, unretrievable_videos, call>>
                       ELSE /\ unretrievable_videos' = handled.unretrievable
                            /\ idx' = next_element(idx, TRUE)
                            /\ batch_pc' = "loop"
                            /\ call' = [call EXCEPT ![1] = [IdleCall EXCEPT !.attempt = c.attempt]]
                            /\ UNCHANGED <<data, batch_result>>
    /\ UNCHANGED <<video_ids, continue_after_error, batch_args, sessions, requests_log, invoked>>

\* return data, unretrievable_videos
BatchReturn ==
    /\ mode = "batch"
    /\ batch_pc = "loop"
    /\ idx > Len(video_ids)
    /\ batch_pc' = "returned"
    /\ batch_result' = Returned(<<data, unretrievable_videos>>)
    /\ UNCHANGED <<video_ids, continue_after_error, batch_args, idx, data,
                   unretrievable_videos, history, call, sessions, requests_log, invoked>>

\* the stages of the retrieval the loop is waiting for; the file system and the platform
\* answer as they please, and may answer differently from one attempt to the next
BatchLoadCookies ==
    /\ mode = "batch"
    /\ \E file \in CookieFiles : LoadCookies(1, file)
    /\ UNCHANGED batch_vars

BatchConfigure ==
    /\ mode = "batch"
    /\ Configure(1)
    /\ UNCHANGED batch_vars

BatchFetchList ==
    /\ mode = "batch"
    /\ \E response \in PageResponses : FetchList(1, response)
    /\ UNCHANGED batch_vars

BatchFindTranscript ==
    /\ mode = "batch"
    /\ FindTranscript(1)
    /\ UNCHANGED batch_vars

BatchFetchTranscript ==
    /\ mode = "batch"
    /\ \E response \in PayloadResponses : FetchTranscript(1, response)
    /\ UNCHANGED batch_vars

BatchIdle ==
    /\ video_ids = <<>>
    /\ continue_after_error = FALSE
    /\ batch_args = None
    /\ idx = 1
    /\ data = {}
    /\ unretrievable_videos = <<>>
    /\ batch_pc = "none"
    /\ batch_result = [kind |-> "none"]
    /\ history = <<>>

CallsIdle(procs) ==
    /\ call = [p \in procs |-> IdleCall]
    /\ sessions = <<>>
    /\ requests_log = <<>>
    /\ invoked = <<>>

MatchIdle == catalog = <<>> /\ requested = <<>> /\ found = [kind |-> "none"]

TranslateIdle == descriptor = None /\ derived = <<>>

Init ==
    /\ mode = "batch"
    /\ video_ids \in SeqsUpTo(Videos, MaxVideos)
    /\ continue_after_error \in BOOLEAN
    /\ batch_args \in BatchArgs
    /\ idx = 1
    /\ data = {}
    /\ unretrievable_videos = <<>>
    /\ batch_pc = "loop"
    /\ batch_result = [kind |-> "none"]
    /\ history = <<>>
    /\ CallsIdle({1})
    /\ world = None
    /\ MatchIdle
    /\ TranslateIdle

Next ==
    \/ BatchCall /\ UNCHANGED <<world, match_vars, translate_vars, mode>>
    \/ BatchLoadCookies /\ UNCHANGED <<world, match_vars, translate_vars, mode>>
    \/ BatchConfigure /\ UNCHANGED <<world, match_vars, translate_vars, mode>>
    \/ BatchFetchList /\ UNCHANGED <<world, match_vars, translate_vars, mode>>
    \/ BatchFindTranscript /\ UNCHANGED <<world, match_vars, translate_vars, mode>>
    \/ BatchFetchTranscript /\ UNCHANGED <<world, match_vars, translate_vars, mode>>
    \/ BatchCollect /\ UNCHANGED <<world, match_vars, translate_vars, mode>>
    \/ BatchReturn /\ UNCHANGED <<world, match_vars, translate_vars, mode>>

Spec == Init /\ [][Next]_vars

----------------------------------------------------------------------------
(* Two callers retrieving different videos at the same time *)

Procs == {1, 2}

VideoOf(p) == IF p = 1 THEN "vidA" ELSE "vidB"

\* what one caller passes, and what the file system and the platform hold for it
CallerWorlds(p) ==
    {w \in {[args |-> Args(VideoOf(p), << <<"en">> >>, x, k, f,
                          IF x = None THEN None ELSE "False"),
             file |-> cf, restricted |-> r, page |-> pg, payload |-> pl] :
                x \in {None, "proxy"}, k \in {None, "cookies.txt"}, f \in {p = 1},
                cf \in CookieFiles, r \in BOOLEAN,
                pg \in {[kind |-> "ok", catalog |-> c] : c \in PageCatalogs}
                          \cup {[kind |-> "TranscriptsDisabled"]},
                pl \in {[kind |-> "ok", body |-> "body1"],
                        [kind |-> "CouldNotRetrieveTranscript"]}} :
        w.args.cookies = None => w.file = "missing"}

\* the platform's answer to a page request: an age-restricted video is served only to a
\* session that presents cookies
PlatformPage(w, cookies) ==
    IF w.restricted /\ cookies = "empty" THEN [kind |-> "VideoUnplayable"] ELSE w.page

\* get_transcript for one caller's arguments, run on its own from start to end
Alone(w) ==
    LET a == w.args
        jar == IF a.cookies # None THEN load_cookies(w.file, a.video_id) ELSE Returned("empty")
    IN  IF jar.kind = "raised" THEN jar
        ELSE LET page == PlatformPage(w, jar.value)
             IN  IF page.kind # "ok" THEN Raised(Error(page.kind, a.video_id))
                 ELSE LET match == find_transcript(page.catalog, a.languages)
                      IN  IF match.kind # "found" THEN Raised(Error(match.kind, a.video_id))
                          ELSE IF w.payload.kind # "ok"
                          THEN Raised(Error(w.payload.kind, a.video_id))
                          ELSE Returned(parse_cues(match.transcript, w.payload.body,
                                                   fetch_flag(a.preserve_formatting)))

ConcurrentEnter(p) ==
    /\ mode = "concurrent"
    /\ EnterListTranscripts(p, world[p].args)

ConcurrentLoadCookies(p) ==
    /\ mode = "concurrent"
    /\ LoadCookies(p, world[p].file)

ConcurrentConfigure(p) ==
    /\ mode = "concurrent"
    /\ Configure(p)

ConcurrentFetchList(p) ==
    /\ mode = "concurrent"
    /\ call[p].stage = "fetch_list"
    /\ FetchList(p, PlatformPage(world[p], sessions[call[p].session].cookies))

ConcurrentFindTranscript(p) ==
    /\ mode = "concurrent"
    /\ FindTranscript(p)

ConcurrentFetchTranscript(p) ==
    /\ mode = "concurrent"
    /\ FetchTranscript(p, world[p].payload)

InitConcurrent ==
    /\ mode = "concurrent"
    /\ BatchIdle
    /\ CallsIdle(Procs)
    /\ world \in {[p \in Procs |-> IF p = 1 THEN a ELSE b] :
                     a \in CallerWorlds(1), b \in CallerWorlds(2)}
    /\ MatchIdle
    /\ TranslateIdle

NextConcurrent ==
    \/ \E p \in Procs : ConcurrentEnter(p)
           /\ UNCHANGED <<batch_vars, world, match_vars, translate_vars, mode>>
    \/ \E p \in Procs : ConcurrentLoadCookies(p)
           /\ UNCHANGED <<batch_vars, world, match_vars, translate_vars, mode>>
    \/ \E p \in Procs : ConcurrentConfigure(p)
           /\ UNCHANGED <<batch_vars, world, match_vars, translate_vars, mode>>
    \/ \E p \in Procs : ConcurrentFetchList(p)
           /\ UNCHANGED <<batch_vars, world, match_vars, translate_vars, mode>>
    \/ \E p \in Procs : ConcurrentFindTranscript(p)
           /\ UNCHANGED <<batch_vars, world, match_vars, translate_vars, mode>>
    \/ \E p \in Procs : ConcurrentFetchTranscript(p)
           /\ UNCHANGED <<batch_vars, world, match_vars, translate_vars, mode>>

SpecConcurrent == InitConcurrent /\ [][NextConcurrent]_vars

----------------------------------------------------------------------------
(* Language matching on its own *)

MatchDescriptors == {Descriptor(c, g, <<>>) : c \in Codes, g \in BOOLEAN}

MatchCatalogs == {cat \in SeqsUpTo(MatchDescriptors, MaxTracks) : IsCatalog(cat)}

RequestedLists == SeqsUpTo(Codes, MaxLanguages) \ {<<>>}

ApplyFindTranscript ==
    /\ mode = "match"
    /\ found.kind = "none"
    /\ found' = find_transcript(catalog, requested)
    /\ UNCHANGED <<catalog, requested>>

InitMatch ==
    /\ mode = "match"
    /\ BatchIdle
    /\ CallsIdle({1})
    /\ world = None
    /\ catalog \in MatchCatalogs
    /\ requested \in RequestedLists
    /\ found = [kind |-> "none"]
    /\ TranslateIdle

NextMatch ==
    ApplyFindTranscript /\ UNCHANGED <<batch_vars, call_vars, world, translate_vars, mode>>

SpecMatch == InitMatch /\ [][NextMatch]_vars

----------------------------------------------------------------------------
(* Translation on its own *)

TargetCodes == {<<"de">>, <<"en">>, <<"fr">>}

\* translate called on the Descriptor under test
TranslateOriginal ==
    /\ mode = "translate"
    /\ Len(derived) < MaxTranslations
    /\ \E code \in TargetCodes :
           LET r == translate(descriptor.now, code)
           IN  /\ descriptor' = [descriptor EXCEPT !.now = r.self]
               /\ derived' = Append(derived, [receiver |-> 0, code |-> code, out |-> r.out])

\* translate called on a Descriptor that an earlier translate returned
TranslateReturned ==
    /\ mode = "translate"
    /\ Len(derived) < MaxTranslations
    /\ \E i \in 1..Len(derived), code \in TargetCodes :
           /\ derived[i].out.kind = "found"
           /\ LET r == translate(derived[i].out.transcript, code)
              IN  /\ derived' = Append([derived EXCEPT ![i].out.transcript = r.self],
                                       [receiver |-> i, code |-> code, out |-> r.out])
                  /\ UNCHANGED descriptor

InitTranslate ==
    /\ mode = "translate"
    /\ BatchIdle
    /\ CallsIdle({1})
    /\ world = None
    /\ MatchIdle
    /\ \E d \in Descriptors : descriptor = [initial |-> d, now |-> d]
    /\ derived = <<>>

NextTranslate ==
    \/ TranslateOriginal /\ UNCHANGED <<batch_vars, call_vars, world, match_vars, mode>>
    \/ TranslateReturned /\ UNCHANGED <<batch_vars, call_vars, world, match_vars, mode>>

SpecTranslate == InitTranslate /\ [][NextTranslate]_vars

----------------------------------------------------------------------------
(* Properties of get_transcripts *)

IsReturned(h) == h.outcome.kind = "returned"

IsRaised(h) == h.outcome.kind = "raised"

IdsOf(s) == [i \in 1..Len(s) |-> s[i].video_id]

IsPrefix(s, t) == Len(s) <= Len(t) /\ s = SubSeq(t, 1, Len(s))

\* the last transcript retrieved for each id that was retrieved at all
LastRetrieved ==
    {<<history[i].video_id, history[i].outcome.value>> :
        i \in {i \in 1..Len(history) :
                  /\ IsReturned(history[i])
                  /\ \A j \in (i + 1)..Len(history) :
                         IsReturned(history[j]) => history[j].video_id # history[i].video_id}}

\* C1: with continue_after_error set no per-video failure reaches the caller: taking the
\* elements in input order, every id whose retrieval raised is appended to the
\* unretrievable list, every other id is mapped by data to the transcript retrieved for it,
\* and the call returns the pair (data, unretrievable).
C1_ContinueCollectsFailures ==
    (mode = "batch" /\ continue_after_error) =>
        /\ batch_pc # "raised"
        /\ IsPrefix(IdsOf(history), video_ids)
        /\ unretrievable_videos = IdsOf(SelectSeq(history, IsRaised))
        /\ data = LastRetrieved
        /\ batch_pc = "returned" =>
               /\ Len(history) = Len(video_ids)
               /\ batch_result = Returned(<<data, unretrievable_videos>>)

C1_Witness ==
    /\ continue_after_error
    /\ batch_pc = "returned"
    /\ Len(unretrievable_videos) = 1
    /\ Cardinality(data) = 1
    /\ Len(video_ids) = 2

\* C2: without continue_after_error the first failing retrieval ends the call: its
\* exception is what the caller gets, no id after it is ever passed to get_transcript,
\* and no (data, unretrievable) pair is returned.
C2_StopsAtFirstFailure ==
    (mode = "batch" /\ ~continue_after_error) =>
        /\ unretrievable_videos = <<>>
        /\ \A i \in 1..(Len(history) - 1) : IsReturned(history[i])
        /\ IsPrefix(IdsOf(invoked), video_ids)
        /\ (Len(history) > 0 /\ IsRaised(history[Len(history)])) =>
               /\ batch_pc = "raised"
               /\ batch_result = Raised(history[Len(history)].outcome.error)
               /\ Len(invoked) = Len(history)
        /\ batch_pc = "raised" => Len(history) > 0 /\ IsRaised(history[Len(history)])
        /\ batch_pc = "returned" => \A i \in 1..Len(history) : IsReturned(history[i])

C2_Witness ==
    /\ ~continue_after_error
    /\ batch_pc = "raised"
    /\ Len(history) < Len(video_ids)
    /\ batch_result.error.kind = "TranscriptsDisabled"

\* C9 as stated: when get_transcripts returns with continue_after_error set, the keys of
\* data and the elements of the unretrievable list are disjoint and together are the set of
\* ids in video_ids, whatever the input list.
C9_Partition ==
    (mode = "batch" /\ continue_after_error /\ batch_pc = "returned") =>
        /\ DictKeys(data) \cap Range(unretrievable_videos) = {}
        /\ DictKeys(data) \cup Range(unretrievable_videos) = Range(video_ids)

NoRepeats(s) == \A i, j \in 1..Len(s) : s[i] = s[j] => i = j

\* C9, amended: when get_transcripts returns with continue_after_error set, the keys of
\* data and the elements of the unretrievable list together are the set of ids in
\* video_ids; an id is in both exactly when it occurs more than once in video_ids and one
\* of its retrievals succeeded while another raised, so the two are disjoint whenever
\* video_ids has no repeated id.
C9_CoverAndOverlap ==
    (mode = "batch" /\ continue_after_error /\ batch_pc = "returned") =>
        /\ DictKeys(data) \cup Range(unretrievable_videos) = Range(video_ids)
        /\ \A v \in Range(video_ids) :
               (v \in DictKeys(data) /\ v \in Range(unretrievable_videos))
                   <=> \E i, j \in 1..Len(history) :
                           /\ i # j
                           /\ history[i].video_id = v /\ IsReturned(history[i])
                           /\ history[j].video_id = v /\ IsRaised(history[j])
        /\ NoRepeats(video_ids) =>
               DictKeys(data) \cap Range(unretrievable_videos) = {}

C9_Witness ==
    /\ continue_after_error
    /\ batch_pc = "returned"
    /\ video_ids = <<"vidA", "vidA">>
    /\ DictKeys(data) = {"vidA"}
    /\ unretrievable_videos = <<"vidA">>
    /\ IsReturned(history[1])

RequestsOf(attempt, kind) ==
    {i \in 1..Len(requests_log) :
        requests_log[i].attempt = attempt /\ requests_log[i].kind = kind}

\* C6: nothing is retried: get_transcript is invoked for the elements of video_ids in list
\* order, once per element at most, and each invocation issues at most one page request
\* and at most one payload request, also after a failure such as a rate limit.
C6_NoRetry ==
    mode = "batch" =>
        /\ IsPrefix(IdsOf(invoked), video_ids)
        /\ Len(invoked) \in {Len(history), Len(history) + 1}
        /\ \A k \in 1..Len(invoked) :
               /\ Cardinality(RequestsOf(k, "page")) <= 1
               /\ Cardinality(RequestsOf(k, "payload")) <= 1

C6_Witness ==
    /\ batch_pc = "returned"
    /\ Len(history) = 2
    /\ IsRaised(history[1])
    /\ history[1].outcome.error.kind = "TooManyRequests"
    /\ history[2].video_id = history[1].video_id
    /\ Len(requests_log) = 3

----------------------------------------------------------------------------
(* Properties of one retrieval *)

StageOrder(args) ==
    IF args.cookies # None
    THEN <<"load_cookies", "fetch_list", "find_transcript", "fetch">>
    ELSE <<"fetch_list", "find_transcript", "fetch">>

ErrorsOf(stage) ==
    CASE stage = "load_cookies"    -> {"CookiePathInvalid", "CookiesInvalid", "PermissionError"}
      [] stage = "fetch_list"      -> PageFailures
      [] stage = "find_transcript" -> {"NoTranscriptFound"}
      [] stage = "fetch"           -> {"CouldNotRetrieveTranscript", "Unparsable"}

Started(c) == c.stage # "idle"

Finished(c) == c.stage \in {"returned", "raised"}

\* C3: get_transcript runs cookie loading (only with a cookie path), page fetch and
\* discovery, find_transcript(languages) and the payload fetch in that order; a stage that
\* fails ends the call with its error and nothing after it runs or sends a request; on
\* success the result is the cue sequence of that payload fetch, parsed with the caller's
\* preserve_formatting.
C3_StagesInOrder ==
    mode = "batch" =>
        \A p \in DOMAIN call :
            LET c == call[p]
                pages == RequestsOf(c.attempt, "page")
                payloads == RequestsOf(c.attempt, "payload")
            IN  Started(c) =>
                    /\ IsPrefix(c.trace, StageOrder(c.args))
                    /\ Cardinality(pages) = IF "fetch_list" \in Range(c.trace) THEN 1 ELSE 0
                    /\ Cardinality(payloads) = IF "fetch" \in Range(c.trace) THEN 1 ELSE 0
                    /\ \A i \in pages, j \in payloads : i < j
                    /\ c.stage = "raised" =>
                           /\ c.trace # <<>>
                           /\ c.outcome.kind = "raised"
                           /\ c.outcome.error.kind \in ErrorsOf(c.trace[Len(c.trace)])
                    /\ c.stage = "returned" =>
                           /\ c.trace = StageOrder(c.args)
                           /\ c.transcript = find_transcript(c.catalog, c.args.languages).transcript
                           /\ \A j \in payloads :
                                  c.outcome = Returned(parse_cues(c.transcript,
                                                  requests_log[j].response.body,
                                                  c.args.preserve_formatting))

C3_Witness ==
    /\ mode = "batch"
    /\ call[1].stage = "raised"
    /\ call[1].trace = <<"load_cookies", "fetch_list", "find_transcript">>
    /\ Len(history) = 1
    /\ IsReturned(history[1])
    /\ history[1].outcome.value.formatted

C10_RequestsOnOpenSession ==
    mode = "batch" =>
        /\ \A i \in 1..Len(requests_log) : requests_log[i].session_open
        /\ \A p \in DOMAIN call :
               call[p].stage \in {"find_transcript", "fetch", "returned", "raised"}
                   => ~sessions[call[p].session].open

----------------------------------------------------------------------------
(* Properties of concurrent retrievals *)

\* C8: two retrievals for different video ids that run interleaved each use a session of
\* their own, and each ends as it would have ended running alone, whatever the
\* interleaving.
C8_CallersIndependent ==
    mode = "concurrent" =>
        /\ \A p, q \in Procs :
               (p # q /\ Started(call[p]) /\ Started(call[q]))
                   => call[p].session # call[q].session
        /\ \A p \in Procs : Finished(call[p]) => call[p].outcome = Alone(world[p])

C8_Witness ==
    /\ mode = "concurrent"
    /\ call[1].outcome = Raised(Error("VideoUnplayable", "vidA"))
    /\ call[2].stage = "returned"
    /\ sessions[call[2].session].cookies = "nonempty"
    /\ world[2].restricted
    /\ requests_log[1].caller = 1
    /\ requests_log[2].caller = 2

----------------------------------------------------------------------------
(* Properties of matching and translation *)

\* C4: when the catalog holds an exact language_code match for some requested code,
\* find_transcript returns the exact match of the first requested code that has one, never
\* an approximate match for a requested code of higher priority.
C4_ExactBeforeApproximate ==
    (mode = "match" /\ found.kind # "none" /\ Ranks(catalog, requested, Exact) # {}) =>
        /\ found.kind = "found"
        /\ found.transcript.language_code
               = requested[Min(Ranks(catalog, requested, Exact))]
        /\ found.transcript \in Range(catalog)

C4_Witness ==
    /\ mode = "match"
    /\ found.kind = "found"
    /\ Len(requested) = 2
    /\ Candidates(catalog, requested[1], Exact) = {}
    /\ Candidates(catalog, requested[1], Approximate) # {}
    /\ Candidates(catalog, requested[2], Exact) # {}

\* C7: translate leaves its receiver as it was and can be repeated: for a translatable
\* Descriptor d and a code d offers, it returns a new Descriptor that is not translatable,
\* offers no translation languages and has d's is_generated; d still offers the same
\* translation languages after any number of calls; translate on a returned Descriptor
\* fails with "not translatable".
C7_TranslateNonDestructive ==
    mode = "translate" =>
        /\ descriptor.now = descriptor.initial
        /\ \A i \in 1..Len(derived) :
               LET t == derived[i]
                   d == descriptor.initial
               IN  /\ (t.receiver = 0 /\ d.is_translatable
                           /\ t.code \in Range(d.translation_languages))
                       => /\ t.out.kind = "found"
                          /\ ~t.out.transcript.is_translatable
                          /\ t.out.transcript.translation_languages = <<>>
                          /\ t.out.transcript.is_generated = d.is_generated
                          /\ t.out.transcript.language_code = d.language_code
                          /\ t.out.transcript.target = t.code
                   /\ t.receiver # 0 => t.out.kind = "NotTranslatable"

C7_Witness ==
    /\ mode = "translate"
    /\ Len(derived) = 3
    /\ derived[1].out.kind = "found"
    /\ derived[2].receiver = 1
    /\ derived[2].out.kind = "NotTranslatable"
    /\ derived[3].receiver = 0
    /\ derived[3].out.kind = "found"
    /\ derived[3].code = derived[1].code

====
